---- MODULE Spec2Model ----
(***************************************************************************)
(* Bounded streaming download of khandy: download_image and download_file  *)
(* (src/khandy/misc.py).  Two calls run side by side on responses drawn    *)
(* in the initial state.  Each call walks through the body of its function *)
(* one statement group at a time: the GET and the status check, the        *)
(* Content-Type check (download_image only), the Content-Length check,     *)
(* one loop iteration per chunk, and the end of the loop.                  *)
(*                                                                         *)
(* Header values are strings, modelled as sequences of one-character       *)
(* strings.  An optional value (Python's None or a value) is a sequence of *)
(* length 0 or 1.  The bytes of a body are labelled by their offset in the *)
(* stream, so that a dropped, repeated or reordered chunk changes the      *)
(* joined buffer.                                                          *)
(***************************************************************************)
EXTENDS Integers, Sequences, FiniteSets, TLC

\* ---------------------------------------------------------------- bounds
MaxSize == 2
MaxChunks == 2
ChunkSize == 2

\* ------------------------------------------------------- optional values
None == <<>>
Some(v) == <<v>>
IsNone(o) == Len(o) = 0
Val(o) == o[1]

\* ------------------------------------------------------------ the calls
Calls == {1, 2}
Functions == {"download_image", "download_file"}

\* --------------------------------------------------- DownloadStatusCode
DownloadStatusCode ==
  [ FILE_SIZE_TOO_LARGE |-> [code |-> -100, message |-> "the size of file from url is too large"],
    FILE_SIZE_TOO_SMALL |-> [code |-> -101, message |-> "the size of file from url is too small"],
    FILE_SIZE_IS_ZERO   |-> [code |-> -102, message |-> "the size of file from url is zero"],
    URL_IS_NOT_IMAGE    |-> [code |-> -103, message |-> "URL is not an image"] ]

\* DownloadError(status_code) with extra_str = None
DownloadError(status_name) ==
  [ type    |-> "DownloadError",
    name    |-> status_name,
    code    |-> DownloadStatusCode[status_name].code,
    message |-> DownloadStatusCode[status_name].message ]

\* exceptions that are not DownloadError carry no status code
OtherError(type_name) ==
  [ type |-> type_name, name |-> "", code |-> 0, message |-> "" ]

\* requests.HTTPError, raised by response.raise_for_status()
HTTPError == OtherError("HTTPError")

\* ValueError, raised by int() on a string that is no integer literal
ValueError == OtherError("ValueError")

\* ------------------------------------------------------ string helpers
\* str.startswith(prefix)
StartsWith(s, prefix) ==
  /\ Len(s) >= Len(prefix)
  /\ SubSeq(s, 1, Len(prefix)) = prefix

ImagePrefix == <<"i","m","a","g","e","/">>
OctetStreamPrefix ==
  <<"a","p","p","l","i","c","a","t","i","o","n","/",
    "o","c","t","e","t","-","s","t","r","e","a","m">>

\* mutant: only the first prefix is tested
IsImageContentType_FirstPrefixOnly(content_type) ==
  StartsWith(content_type, ImagePrefix)

\* content_type.startswith(('image/', 'application/octet-stream'))
IsImageContentType(content_type) ==
  \/ StartsWith(content_type, ImagePrefix)
  \/ StartsWith(content_type, OctetStreamPrefix)

DigitChars == <<"0","1","2","3","4","5","6","7","8","9">>
IsDigit(ch) == \E i \in 1..10 : DigitChars[i] = ch
DigitVal(ch) == (CHOOSE i \in 1..10 : DigitChars[i] = ch) - 1

RECURSIVE LStrip(_)
LStrip(s) == IF s # <<>> /\ Head(s) = " " THEN LStrip(Tail(s)) ELSE s

RECURSIVE RStrip(_)
RStrip(s) ==
  IF s # <<>> /\ s[Len(s)] = " " THEN RStrip(SubSeq(s, 1, Len(s) - 1)) ELSE s

\* the digits of an integer literal: digits, single underscores between them
IsDigitString(d) ==
  /\ d # <<>>
  /\ IsDigit(d[1])
  /\ IsDigit(d[Len(d)])
  /\ \A i \in 1..Len(d) : IsDigit(d[i]) \/ d[i] = "_"
  /\ \A i \in 1..(Len(d) - 1) : ~(d[i] = "_" /\ d[i+1] = "_")

RECURSIVE DigitsValue(_, _)
DigitsValue(d, acc) ==
  IF d = <<>> THEN acc
  ELSE IF Head(d) = "_" THEN DigitsValue(Tail(d), acc)
  ELSE DigitsValue(Tail(d), 10 * acc + DigitVal(Head(d)))

\* int(s) for a str s: Some(n), or None when int raises ValueError
ParseInt(s) ==
  LET t == RStrip(LStrip(s))
      signed == t # <<>> /\ (t[1] = "-" \/ t[1] = "+")
      d == IF signed THEN Tail(t) ELSE t
  IN IF ~IsDigitString(d) THEN None
     ELSE IF signed /\ t[1] = "-" THEN Some(0 - DigitsValue(d, 0))
     ELSE Some(DigitsValue(d, 0))

\* mutant: the chunks joined last to first
RECURSIVE Join_Reversed(_)
Join_Reversed(cs) ==
  IF cs = <<>> THEN <<>> ELSE Join_Reversed(Tail(cs)) \o Head(cs)

\* b''.join(chunks)
RECURSIVE Join(_)
Join(cs) == IF cs = <<>> THEN <<>> ELSE Head(cs) \o Join(Tail(cs))

\* len(chunk) summed over a list of chunks
RECURSIVE TotalLen(_)
TotalLen(cs) == IF cs = <<>> THEN 0 ELSE Len(Head(cs)) + TotalLen(Tail(cs))

\* ----------------------------------------------------------- responses
\* status codes the server may answer with
StatusCodes == {200, 300, 404}

\* response.raise_for_status() raises HTTPError for 4xx and 5xx
RaisesForStatus(status_code) == 400 <= status_code /\ status_code < 600

ContentTypes ==
  { None,
    Some(<<"i","m","a","g","e","/","p","n","g">>),
    Some(OctetStreamPrefix),
    Some(<<"t","e","x","t","/","h","t","m","l">>),
    Some(<<"i","m","a","g","e">>) }

\* Content-Length values: every size up to MaxSize + 1 in plain decimal, and
\* strings that exercise int(): signs, blanks, two digits, no integer at all
ContentLengths ==
  {None}
  \cup { Some(<<DigitChars[n + 1]>>) : n \in 0..(MaxSize + 1) }
  \cup { Some(<<"-","1">>), Some(<<"+","1">>), Some(<<" ","2">>),
         Some(<<"1","0">>), Some(<<"a","b","c">>), Some(<<>>) }

\* a body is the byte stream 1, 2, 3, ... cut into chunks of 1..ChunkSize
\* bytes, as response.iter_content(chunk_size) delivers it
ChunkLens == UNION { [1..n -> 1..ChunkSize] : n \in 0..MaxChunks }

RECURSIVE Offset(_, _)
Offset(lens, i) == IF i = 1 THEN 0 ELSE Offset(lens, i - 1) + lens[i - 1]

MkBody(lens) ==
  [ i \in 1..Len(lens) |-> [ j \in 1..lens[i] |-> Offset(lens, i) + j ] ]

Bodies == { MkBody(lens) : lens \in ChunkLens }

VARIABLES
  fn,             \* fn[c]: the function call c executes
  status_code,    \* response.status_code
  headers,        \* headers[c]: the response headers call c receives
  body,           \* the chunks the response's iter_content yields, in order
  min_filesize,
  max_filesize,
  pc,             \* pc[c]: where call c is in the function body
  opened,         \* opened[c]: requests.get returned a response
  closed,         \* closed[c]: the with block has closed the response
  content_length, \* content_length[c]: the local after int(), None before
  filesize,       \* filesize[c]
  chunks,         \* chunks[c]
  nread,          \* nread[c]: chunks taken from iter_content so far
  warned,         \* warned[c]: the messages passed to warnings.warn
  visited,        \* visited[c]: the statement groups call c has executed
  raised,         \* raised[c]: the exception the call raised, or None
  returned        \* returned[c]: the bytes the call returned, or None

inputs == <<fn, status_code, headers, body, min_filesize, max_filesize>>
locals == <<content_length, filesize, chunks, nread>>
vars == <<fn, status_code, headers, body, min_filesize, max_filesize, pc,
          opened, closed, content_length, filesize, chunks, nread, warned,
          visited, raised, returned>>

\* the state of every call before its first statement
InitCalls ==
  /\ pc = [c \in Calls |-> "get"]
  /\ opened = [c \in Calls |-> FALSE]
  /\ closed = [c \in Calls |-> FALSE]
  /\ content_length = [c \in Calls |-> None]
  /\ filesize = [c \in Calls |-> 0]
  /\ chunks = [c \in Calls |-> <<>>]
  /\ nread = [c \in Calls |-> 0]
  /\ warned = [c \in Calls |-> {}]
  /\ visited = [c \in Calls |-> {}]
  /\ raised = [c \in Calls |-> None]
  /\ returned = [c \in Calls |-> None]

InitResponse ==
  /\ status_code \in StatusCodes
  /\ body \in Bodies
  /\ min_filesize \in 0..MaxSize
  /\ max_filesize \in 0..MaxSize

\* download_image and download_file side by side on one response
Init ==
  /\ InitResponse
  /\ fn = [c \in Calls |-> IF c = 1 THEN "download_image" ELSE "download_file"]
  /\ \E ct \in ContentTypes, cl \in ContentLengths :
       headers = [c \in Calls |-> [content_type |-> ct, content_length |-> cl]]
  /\ InitCalls

\* call c executes the statement group named stage
Visit(c, stage) == visited' = [visited EXCEPT ![c] = @ \cup {stage}]

\* mutant: the exception leaves the function with the response still open
Raise_NoClose(c, e) ==
  /\ pc' = [pc EXCEPT ![c] = "done"]
  /\ raised' = [raised EXCEPT ![c] = Some(e)]
  /\ UNCHANGED <<closed, returned>>

\* the with block is left by an exception: the response is closed, the
\* exception reaches the caller
Raise(c, e) ==
  /\ pc' = [pc EXCEPT ![c] = "done"]
  /\ closed' = [closed EXCEPT ![c] = TRUE]
  /\ raised' = [raised EXCEPT ![c] = Some(e)]
  /\ UNCHANGED returned

\* the with block is left normally and the function returns b
Return(c, b) ==
  /\ pc' = [pc EXCEPT ![c] = "done"]
  /\ closed' = [closed EXCEPT ![c] = TRUE]
  /\ returned' = [returned EXCEPT ![c] = Some(b)]
  /\ UNCHANGED raised

\* requests.get(...) as response; response.raise_for_status()
Get(c) ==
  /\ pc[c] = "get"
  /\ Visit(c, "get")
  /\ opened' = [opened EXCEPT ![c] = TRUE]
  /\ IF RaisesForStatus(status_code)
       THEN Raise(c, HTTPError)
       ELSE /\ pc' = [pc EXCEPT ![c] =
                 IF fn[c] = "download_image" THEN "content_type"
                                             ELSE "content_length"]
            /\ UNCHANGED <<closed, raised, returned>>
  /\ UNCHANGED <<inputs, locals, warned>>

\* mutant: an absent Content-Type is treated as not an image
CheckContentType_AbsentRaises(c) ==
  /\ pc[c] = "content_type"
  /\ Visit(c, "content_type")
  /\ LET content_type == headers[c].content_type IN
       IF IsNone(content_type) \/ ~IsImageContentType(Val(content_type))
         THEN /\ Raise(c, DownloadError("URL_IS_NOT_IMAGE"))
              /\ UNCHANGED warned
         ELSE /\ pc' = [pc EXCEPT ![c] = "content_length"]
              /\ UNCHANGED <<closed, raised, returned, warned>>
  /\ UNCHANGED <<inputs, locals, opened>>

\* download_image: the Content-Type check
CheckContentType(c) ==
  /\ pc[c] = "content_type"
  /\ Visit(c, "content_type")
  /\ LET content_type == headers[c].content_type IN
       IF IsNone(content_type)
         THEN /\ warned' = [warned EXCEPT ![c] = @ \cup {"No Content-Type!"}]
              /\ pc' = [pc EXCEPT ![c] = "content_length"]
              /\ UNCHANGED <<closed, raised, returned>>
         ELSE IF ~IsImageContentType(Val(content_type))
           THEN /\ Raise(c, DownloadError("URL_IS_NOT_IMAGE"))
                /\ UNCHANGED warned
           ELSE /\ pc' = [pc EXCEPT ![c] = "content_length"]
                /\ UNCHANGED <<closed, raised, returned, warned>>
  /\ UNCHANGED <<inputs, locals, opened>>

\* mutant: an absent Content-Length counts as a declared size of 0
CheckContentLength_AbsentIsZero(c) ==
  /\ pc[c] = "content_length"
  /\ Visit(c, "content_length")
  /\ LET header == headers[c].content_length
         parsed == IF IsNone(header) THEN Some(0) ELSE ParseInt(Val(header))
     IN
       IF IsNone(parsed)
         THEN /\ Raise(c, ValueError)
              /\ UNCHANGED content_length
         ELSE /\ content_length' = [content_length EXCEPT ![c] = parsed]
              /\ IF Val(parsed) > max_filesize
                   THEN Raise(c, DownloadError("FILE_SIZE_TOO_LARGE"))
                   ELSE IF Val(parsed) < min_filesize
                     THEN Raise(c, DownloadError("FILE_SIZE_TOO_SMALL"))
                     ELSE /\ pc' = [pc EXCEPT ![c] = "stream"]
                          /\ UNCHANGED <<closed, raised, returned>>
  /\ filesize' = [filesize EXCEPT ![c] = 0]
  /\ chunks' = [chunks EXCEPT ![c] = <<>>]
  /\ UNCHANGED <<inputs, nread, opened, warned>>

\* mutant: the declared size is tested against min_filesize first
CheckContentLength_TooSmallFirst(c) ==
  /\ pc[c] = "content_length"
  /\ Visit(c, "content_length")
  /\ LET header == headers[c].content_length
         parsed == ParseInt(Val(header))
     IN
       IF IsNone(header)
         THEN /\ warned' = [warned EXCEPT ![c] = @ \cup {"No Content-Length!"}]
              /\ pc' = [pc EXCEPT ![c] = "stream"]
              /\ UNCHANGED <<closed, raised, returned, content_length>>
         ELSE IF IsNone(parsed)
           THEN /\ Raise(c, ValueError)
                /\ UNCHANGED <<warned, content_length>>
           ELSE /\ content_length' = [content_length EXCEPT ![c] = parsed]
                /\ UNCHANGED warned
                /\ IF Val(parsed) < min_filesize
                     THEN Raise(c, DownloadError("FILE_SIZE_TOO_SMALL"))
                     ELSE IF Val(parsed) > max_filesize
                       THEN Raise(c, DownloadError("FILE_SIZE_TOO_LARGE"))
                       ELSE /\ pc' = [pc EXCEPT ![c] = "stream"]
                            /\ UNCHANGED <<closed, raised, returned>>
  /\ filesize' = [filesize EXCEPT ![c] = 0]
  /\ chunks' = [chunks EXCEPT ![c] = <<>>]
  /\ UNCHANGED <<inputs, nread, opened>>

\* mutant: the declared size is parsed but never compared with the bounds
CheckContentLength_NoPreCheck(c) ==
  /\ pc[c] = "content_length"
  /\ Visit(c, "content_length")
  /\ LET header == headers[c].content_length
         parsed == ParseInt(Val(header))
     IN
       IF IsNone(header)
         THEN /\ warned' = [warned EXCEPT ![c] = @ \cup {"No Content-Length!"}]
              /\ pc' = [pc EXCEPT ![c] = "stream"]
              /\ UNCHANGED <<closed, raised, returned, content_length>>
         ELSE IF IsNone(parsed)
           THEN /\ Raise(c, ValueError)
                /\ UNCHANGED <<warned, content_length>>
           ELSE /\ content_length' = [content_length EXCEPT ![c] = parsed]
                /\ pc' = [pc EXCEPT ![c] = "stream"]
                /\ UNCHANGED <<warned, closed, raised, returned>>
  /\ filesize' = [filesize EXCEPT ![c] = 0]
  /\ chunks' = [chunks EXCEPT ![c] = <<>>]
  /\ UNCHANGED <<inputs, nread, opened>>

\* the Content-Length check, then filesize = 0; chunks = []
CheckContentLength(c) ==
  /\ pc[c] = "content_length"
  /\ Visit(c, "content_length")
  /\ LET header == headers[c].content_length
         parsed == ParseInt(Val(header))
     IN
       IF IsNone(header)
         THEN /\ warned' = [warned EXCEPT ![c] = @ \cup {"No Content-Length!"}]
              /\ pc' = [pc EXCEPT ![c] = "stream"]
              /\ UNCHANGED <<closed, raised, returned, content_length>>
         ELSE IF IsNone(parsed)
           THEN /\ Raise(c, ValueError)
                /\ UNCHANGED <<warned, content_length>>
           ELSE /\ content_length' = [content_length EXCEPT ![c] = parsed]
                /\ UNCHANGED warned
                /\ IF Val(parsed) > max_filesize
                     THEN Raise(c, DownloadError("FILE_SIZE_TOO_LARGE"))
                     ELSE IF Val(parsed) < min_filesize
                       THEN Raise(c, DownloadError("FILE_SIZE_TOO_SMALL"))
                       ELSE /\ pc' = [pc EXCEPT ![c] = "stream"]
                            /\ UNCHANGED <<closed, raised, returned>>
  /\ filesize' = [filesize EXCEPT ![c] = 0]
  /\ chunks' = [chunks EXCEPT ![c] = <<>>]
  /\ UNCHANGED <<inputs, nread, opened>>

\* mutant: the loop has no size check
ReadChunk_NoLimit(c) ==
  /\ pc[c] = "stream"
  /\ Visit(c, "stream")
  /\ nread[c] < Len(body)
  /\ LET chunk == body[nread[c] + 1] IN
       /\ nread' = [nread EXCEPT ![c] = @ + 1]
       /\ chunks' = [chunks EXCEPT ![c] = Append(@, chunk)]
       /\ filesize' = [filesize EXCEPT ![c] = @ + Len(chunk)]
  /\ UNCHANGED <<pc, closed, raised, returned>>
  /\ UNCHANGED <<inputs, content_length, opened, warned>>

\* mutant: the size check runs before the chunk is counted
ReadChunk_CheckBeforeAdd(c) ==
  /\ pc[c] = "stream"
  /\ Visit(c, "stream")
  /\ nread[c] < Len(body)
  /\ LET chunk == body[nread[c] + 1] IN
       /\ nread' = [nread EXCEPT ![c] = @ + 1]
       /\ chunks' = [chunks EXCEPT ![c] = Append(@, chunk)]
       /\ filesize' = [filesize EXCEPT ![c] = @ + Len(chunk)]
       /\ IF filesize[c] > max_filesize
            THEN Raise(c, DownloadError("FILE_SIZE_TOO_LARGE"))
            ELSE UNCHANGED <<pc, closed, raised, returned>>
  /\ UNCHANGED <<inputs, content_length, opened, warned>>

\* one iteration of: for chunk in response.iter_content(chunk_size=10*1024)
ReadChunk(c) ==
  /\ pc[c] = "stream"
  /\ Visit(c, "stream")
  /\ nread[c] < Len(body)
  /\ LET chunk == body[nread[c] + 1] IN
       /\ nread' = [nread EXCEPT ![c] = @ + 1]
       /\ chunks' = [chunks EXCEPT ![c] = Append(@, chunk)]
       /\ filesize' = [filesize EXCEPT ![c] = @ + Len(chunk)]
       /\ IF filesize[c] + Len(chunk) > max_filesize
            THEN Raise(c, DownloadError("FILE_SIZE_TOO_LARGE"))
            ELSE UNCHANGED <<pc, closed, raised, returned>>
  /\ UNCHANGED <<inputs, content_length, opened, warned>>

\* mutant: a declared size is trusted over the observed one after the loop
EndOfStream_TrustsDeclared(c) ==
  /\ pc[c] = "stream"
  /\ Visit(c, "end")
  /\ nread[c] = Len(body)
  /\ IF IsNone(content_length[c])
       THEN IF filesize[c] < min_filesize
              THEN Raise(c, DownloadError("FILE_SIZE_TOO_SMALL"))
              ELSE Return(c, Join(chunks[c]))
       ELSE Return(c, Join(chunks[c]))
  /\ UNCHANGED <<inputs, locals, opened, warned>>

\* iter_content is exhausted: the check after the loop, the join, the return
EndOfStream(c) ==
  /\ pc[c] = "stream"
  /\ Visit(c, "end")
  /\ nread[c] = Len(body)
  /\ IF filesize[c] < min_filesize
       THEN Raise(c, DownloadError("FILE_SIZE_TOO_SMALL"))
       ELSE Return(c, Join(chunks[c]))
  /\ UNCHANGED <<inputs, locals, opened, warned>>

Next ==
  \/ \E c \in Calls : Get(c)
  \/ \E c \in Calls : CheckContentType(c)
  \/ \E c \in Calls : CheckContentLength(c)
  \/ \E c \in Calls : ReadChunk(c)
  \/ \E c \in Calls : EndOfStream(c)

Spec == Init /\ [][Next]_vars

\* the same function called on a response without Content-Length (call 1)
\* and on the same response with a Content-Length (call 2)
InitTwin ==
  /\ InitResponse
  /\ \E f \in Functions : fn = [c \in Calls |-> f]
  /\ \E ct \in ContentTypes, cl \in ContentLengths \ {None} :
       headers = [c \in Calls |->
                    [content_type |-> ct,
                     content_length |-> IF c = 1 THEN None ELSE cl]]
  /\ InitCalls

SpecTwin == InitTwin /\ [][Next]_vars

\* ------------------------------------------------------------------------
\* Vocabulary of the properties
\* ------------------------------------------------------------------------
Done(c) == pc[c] = "done"
Succeeded(c) == Done(c) /\ ~IsNone(returned[c])
Failed(c) == Done(c) /\ ~IsNone(raised[c])
RaisedDownloadError(c, status_name) ==
  /\ Failed(c)
  /\ Val(raised[c]).type = "DownloadError"
  /\ Val(raised[c]).name = status_name
RaisedOther(c, type_name) == Failed(c) /\ Val(raised[c]).type = type_name

\* the size of the first k chunks of the body, and of the whole body
PrefixSize(k) == TotalLen(SubSeq(body, 1, k))
BodySize == PrefixSize(Len(body))
\* the chunks at which the running total is above max_filesize
Exceeding == { k \in 1..Len(body) : PrefixSize(k) > max_filesize }
FirstExceeding == CHOOSE k \in Exceeding : \A j \in Exceeding : k <= j

\* the status is one raise_for_status accepts: below 400
StatusAccepted == status_code < 400
HasPrefix(s, prefix) == \E n \in 0..Len(s) : SubSeq(s, 1, n) = prefix
ContentTypeAbsent(c) == IsNone(headers[c].content_type)
\* the Content-Type starts with "image/" or with "application/octet-stream"
ContentTypeAllowed(c) ==
  /\ ~ContentTypeAbsent(c)
  /\ \/ HasPrefix(Val(headers[c].content_type), <<"i","m","a","g","e","/">>)
     \/ HasPrefix(Val(headers[c].content_type),
                  <<"a","p","p","l","i","c","a","t","i","o","n","/",
                    "o","c","t","e","t","-","s","t","r","e","a","m">>)
\* the Content-Type check does not stop call c
ContentTypePasses(c) ==
  fn[c] = "download_file" \/ ContentTypeAbsent(c) \/ ContentTypeAllowed(c)
ContentLengthAbsent(c) == IsNone(headers[c].content_length)
\* the Content-Length header of call c is an integer literal
ContentLengthIsInt(c) ==
  ~ContentLengthAbsent(c) /\ ~IsNone(ParseInt(Val(headers[c].content_length)))
DeclaredSize(c) == Val(ParseInt(Val(headers[c].content_length)))
DeclaredWithinBounds(c) ==
  /\ ContentLengthIsInt(c)
  /\ min_filesize <= DeclaredSize(c)
  /\ DeclaredSize(c) <= max_filesize

\* ------------------------------------------------------------------------
\* C1: whenever download_file or download_image returns, the length of the
\* returned bytes is >= min_filesize and <= max_filesize, both ends included.
\* ------------------------------------------------------------------------
C1_ReturnedWithinBounds ==
  \A c \in Calls :
    Succeeded(c) =>
      /\ Len(Val(returned[c])) >= min_filesize
      /\ Len(Val(returned[c])) <= max_filesize

\* a body of exactly min_filesize = max_filesize bytes, in two chunks, accepted
C1_Witness ==
  \E c \in Calls :
    /\ Succeeded(c)
    /\ nread[c] = 2
    /\ Len(Val(returned[c])) = min_filesize
    /\ Len(Val(returned[c])) = max_filesize

\* ------------------------------------------------------------------------
\* C2 as stated: for a response without Content-Length whose body is larger
\* than max_filesize the call ends with FILE_SIZE_TOO_LARGE, raised at the
\* first chunk that takes the running total above max_filesize; the running
\* total never exceeds max_filesize + chunk_size; nothing is read after the
\* abort (the number of chunks read stays the index of that chunk).
\* ------------------------------------------------------------------------
C2_AbortAtFirstExceedingChunk(c) ==
  /\ RaisedDownloadError(c, "FILE_SIZE_TOO_LARGE")
  /\ nread[c] = FirstExceeding
  /\ chunks[c] = SubSeq(body, 1, FirstExceeding)
  /\ filesize[c] = PrefixSize(FirstExceeding)
  /\ "end" \notin visited[c]

C2_Original ==
  \A c \in Calls :
    /\ filesize[c] <= max_filesize + ChunkSize
    /\ (Done(c) /\ ContentLengthAbsent(c) /\ BodySize > max_filesize)
         => C2_AbortAtFirstExceedingChunk(c)

\* C2 amended: the same, for a response whose status raise_for_status accepts
\* and, in download_image, whose Content-Type is absent or allowed.
C2_StreamAbort ==
  \A c \in Calls :
    /\ filesize[c] <= max_filesize + ChunkSize
    /\ (Done(c) /\ ContentLengthAbsent(c) /\ BodySize > max_filesize
          /\ StatusAccepted /\ ContentTypePasses(c))
         => C2_AbortAtFirstExceedingChunk(c)

\* an abort at the second chunk with the running total at
\* max_filesize + ChunkSize
C2_Witness ==
  \E c \in Calls :
    /\ ContentLengthAbsent(c)
    /\ RaisedDownloadError(c, "FILE_SIZE_TOO_LARGE")
    /\ nread[c] = 2
    /\ filesize[c] = max_filesize + ChunkSize

\* ------------------------------------------------------------------------
\* C3 as stated: a Content-Length whose integer value is above max_filesize
\* makes the call fail with FILE_SIZE_TOO_LARGE, one below min_filesize with
\* FILE_SIZE_TOO_SMALL, in both cases with zero chunks read.
\* ------------------------------------------------------------------------
C3_Original ==
  \A c \in Calls :
    (Done(c) /\ ContentLengthIsInt(c)) =>
      /\ DeclaredSize(c) > max_filesize =>
           (RaisedDownloadError(c, "FILE_SIZE_TOO_LARGE") /\ nread[c] = 0)
      /\ DeclaredSize(c) < min_filesize =>
           (RaisedDownloadError(c, "FILE_SIZE_TOO_SMALL") /\ nread[c] = 0)

\* C3 amended: on a response whose status raise_for_status accepts and, in
\* download_image, whose Content-Type is absent or allowed, a declared size
\* above max_filesize fails with FILE_SIZE_TOO_LARGE, and a declared size below
\* min_filesize that is not above max_filesize fails with FILE_SIZE_TOO_SMALL;
\* in both cases the loop over the body is never entered.
C3_DeclaredSizeRejected ==
  \A c \in Calls :
    (Done(c) /\ ContentLengthIsInt(c) /\ StatusAccepted /\ ContentTypePasses(c)) =>
      /\ DeclaredSize(c) > max_filesize =>
           /\ RaisedDownloadError(c, "FILE_SIZE_TOO_LARGE")
           /\ nread[c] = 0
           /\ visited[c] \cap {"stream", "end"} = {}
      /\ (DeclaredSize(c) < min_filesize /\ DeclaredSize(c) <= max_filesize) =>
           /\ RaisedDownloadError(c, "FILE_SIZE_TOO_SMALL")
           /\ nread[c] = 0
           /\ visited[c] \cap {"stream", "end"} = {}

\* a declared size below min_filesize rejected although the body itself has
\* chunks to read and would have been large enough
C3_Witness ==
  \E c \in Calls :
    /\ fn[c] = "download_image"
    /\ ContentLengthIsInt(c)
    /\ DeclaredSize(c) < min_filesize
    /\ BodySize >= min_filesize
    /\ RaisedDownloadError(c, "FILE_SIZE_TOO_SMALL")
    /\ nread[c] = 0
\* ------------------------------------------------------------------------
\* C4 as stated: for a response whose total streamed size is within
\* [min_filesize, max_filesize] the call succeeds and returns exactly the
\* bytes of the stream, in order: byte i of the result is byte i of the stream.
\* ------------------------------------------------------------------------
StreamBytes == [ i \in 1..BodySize |-> i ]
BodyWithinBounds == min_filesize <= BodySize /\ BodySize <= max_filesize

C4_Original ==
  \A c \in Calls :
    (Done(c) /\ BodyWithinBounds) =>
      (Succeeded(c) /\ Val(returned[c]) = StreamBytes)

\* C4 amended: the same, for a response whose status raise_for_status accepts,
\* whose Content-Type (in download_image) is absent or allowed, and whose
\* Content-Length is absent or an integer within [min_filesize, max_filesize].
C4_InBoundsBodyReturned ==
  \A c \in Calls :
    (Done(c) /\ BodyWithinBounds /\ StatusAccepted /\ ContentTypePasses(c)
       /\ (ContentLengthAbsent(c) \/ DeclaredWithinBounds(c))) =>
      /\ Succeeded(c)
      /\ Val(returned[c]) = StreamBytes
      /\ Len(Val(returned[c])) = BodySize
      /\ chunks[c] = body

\* two chunks returned as one buffer, under a declared size that is within
\* the bounds but is not the size of the body
C4_Witness ==
  \E c \in Calls :
    /\ Succeeded(c)
    /\ Len(body) = 2
    /\ DeclaredWithinBounds(c)
    /\ DeclaredSize(c) # BodySize
    /\ Val(returned[c]) = StreamBytes

\* ------------------------------------------------------------------------
\* C5 as stated, for download_image: a Content-Type that is present and
\* starts with neither "image/" nor "application/octet-stream" makes the call
\* fail with URL_IS_NOT_IMAGE with no chunk read; one that starts with such a
\* prefix lets the call go on to the Content-Length check; an absent one lets
\* the call go on with the warning only.
\* ------------------------------------------------------------------------
C5_ContentTypeRule(c) ==
  /\ (~ContentTypeAbsent(c) /\ ~ContentTypeAllowed(c)) =>
       /\ RaisedDownloadError(c, "URL_IS_NOT_IMAGE")
       /\ nread[c] = 0
       /\ visited[c] = {"get", "content_type"}
  /\ ContentTypeAllowed(c) =>
       /\ "content_length" \in visited[c]
       /\ warned[c] \subseteq {"No Content-Length!"}
  /\ ContentTypeAbsent(c) =>
       /\ "content_length" \in visited[c]
       /\ "No Content-Type!" \in warned[c]

C5_Original ==
  \A c \in Calls :
    (Done(c) /\ fn[c] = "download_image") => C5_ContentTypeRule(c)

\* C5 amended: the same, on a response whose status raise_for_status accepts.
C5_ContentTypeChecked ==
  \A c \in Calls :
    (Done(c) /\ fn[c] = "download_image" /\ StatusAccepted) =>
      C5_ContentTypeRule(c)

\* "image" without the slash is rejected before a body with chunks is read
C5_Witness ==
  \E c \in Calls :
    /\ fn[c] = "download_image"
    /\ headers[c].content_type = Some(<<"i","m","a","g","e">>)
    /\ RaisedDownloadError(c, "URL_IS_NOT_IMAGE")
    /\ Len(body) > 0
    /\ nread[c] = 0

\* ------------------------------------------------------------------------
\* C6: once a call has acquired its response, the response is closed in
\* every state in which the call has ended, whichever way it ended; and it is
\* not closed while the call still runs.
\* ------------------------------------------------------------------------
C6_ResponseReleased ==
  \A c \in Calls :
    /\ (Done(c) /\ opened[c]) => closed[c]
    /\ closed[c] => (Done(c) /\ opened[c])

\* a call aborted in the middle of the stream has closed its response
C6_Witness ==
  \E c \in Calls :
    /\ RaisedDownloadError(c, "FILE_SIZE_TOO_LARGE")
    /\ nread[c] > 0
    /\ nread[c] < Len(body)
    /\ closed[c]
\* ------------------------------------------------------------------------
\* C7 as stated: every failing call ends in one of TransportError (the
\* HTTPError of raise_for_status), URL_IS_NOT_IMAGE (-103),
\* FILE_SIZE_TOO_LARGE (-100), FILE_SIZE_TOO_SMALL (-101), with the code and
\* message of its kind, and returns no bytes.
\* ------------------------------------------------------------------------
C7_Classified(e) ==
  \/ e.type = "HTTPError"
  \/ /\ e.type = "DownloadError"
     /\ \/ /\ e.name = "FILE_SIZE_TOO_LARGE"
           /\ e.code = -100
           /\ e.message = "the size of file from url is too large"
        \/ /\ e.name = "FILE_SIZE_TOO_SMALL"
           /\ e.code = -101
           /\ e.message = "the size of file from url is too small"
        \/ /\ e.name = "URL_IS_NOT_IMAGE"
           /\ e.code = -103
           /\ e.message = "URL is not an image"

C7_Original ==
  \A c \in Calls :
    /\ Done(c) => (IsNone(raised[c]) # IsNone(returned[c]))
    /\ Failed(c) => (C7_Classified(Val(raised[c])) /\ IsNone(returned[c]))

\* ------------------------------------------------------------------------
\* C8: an absent header never makes a call fail by itself.  With Content-Type
\* absent download_image warns and goes on to the Content-Length check and
\* never raises URL_IS_NOT_IMAGE; with Content-Length absent a call that got
\* that far warns, parses nothing, enters the loop over the body, and fails
\* only on the observed size; with both absent, an accepted status and a body
\* within [min_filesize, max_filesize] both functions succeed.
\* ------------------------------------------------------------------------
C8_AbsentHeadersTolerated ==
  \A c \in Calls :
    Done(c) =>
      /\ ContentTypeAbsent(c) =>
           /\ ~RaisedDownloadError(c, "URL_IS_NOT_IMAGE")
           /\ (fn[c] = "download_image" /\ StatusAccepted) =>
                /\ "No Content-Type!" \in warned[c]
                /\ "content_length" \in visited[c]
      /\ (ContentLengthAbsent(c) /\ StatusAccepted /\ ContentTypePasses(c)) =>
           /\ "No Content-Length!" \in warned[c]
           /\ IsNone(content_length[c])
           /\ visited[c] \cap {"stream", "end"} # {}
           /\ ~RaisedOther(c, "ValueError")
           /\ RaisedDownloadError(c, "FILE_SIZE_TOO_LARGE") => filesize[c] > max_filesize
           /\ RaisedDownloadError(c, "FILE_SIZE_TOO_SMALL") =>
                (nread[c] = Len(body) /\ BodySize < min_filesize)
      /\ (ContentTypeAbsent(c) /\ ContentLengthAbsent(c) /\ StatusAccepted
            /\ BodyWithinBounds) =>
           (Succeeded(c) /\ Val(returned[c]) = StreamBytes)

\* download_image succeeds on a non-empty body with both headers absent and
\* a positive min_filesize, having recorded the two warnings
C8_Witness ==
  \E c \in Calls :
    /\ fn[c] = "download_image"
    /\ ContentTypeAbsent(c)
    /\ ContentLengthAbsent(c)
    /\ min_filesize > 0
    /\ Succeeded(c)
    /\ warned[c] = {"No Content-Type!", "No Content-Length!"}

\* ------------------------------------------------------------------------
\* C9 (twin calls: call 1 on the response without Content-Length, call 2 on
\* the same response with one): when the status is accepted, the Content-Type
\* passes and the declared size is within the bounds, both calls end the same
\* way, decided by the observed size alone: FILE_SIZE_TOO_LARGE if the running
\* total exceeds max_filesize at some chunk, else FILE_SIZE_TOO_SMALL, after
\* the whole stream was read, if the total is below min_filesize, else
\* success; an empty body is returned when min_filesize = 0.
\* ------------------------------------------------------------------------
C9_ObservedVerdict(c) ==
  IF Exceeding # {}
    THEN RaisedDownloadError(c, "FILE_SIZE_TOO_LARGE") /\ nread[c] = FirstExceeding
    ELSE IF BodySize < min_filesize
      THEN /\ RaisedDownloadError(c, "FILE_SIZE_TOO_SMALL")
           /\ nread[c] = Len(body)
           /\ "end" \in visited[c]
      ELSE Succeeded(c) /\ Val(returned[c]) = StreamBytes

C9_ObservedSizeDecides ==
  (/\ \A c \in Calls : Done(c)
   /\ ContentLengthAbsent(1)
   /\ DeclaredWithinBounds(2)
   /\ StatusAccepted
   /\ \A c \in Calls : ContentTypePasses(c)) =>
    /\ raised[1] = raised[2]
    /\ returned[1] = returned[2]
    /\ nread[1] = nread[2]
    /\ \A c \in Calls : C9_ObservedVerdict(c)

\* both twins fail with FILE_SIZE_TOO_SMALL after reading the whole stream,
\* although the declared size of call 2 was large enough
C9_Witness ==
  /\ ContentLengthAbsent(1)
  /\ DeclaredWithinBounds(2)
  /\ DeclaredSize(2) # BodySize
  /\ \A c \in Calls : RaisedDownloadError(c, "FILE_SIZE_TOO_SMALL")
  /\ nread[2] = Len(body)
  /\ Len(body) > 0

\* ------------------------------------------------------------------------
\* C10 (call 1 is download_image, call 2 download_file, on one response):
\* when the Content-Type is absent or allowed the two calls read the same
\* number of chunks and end the same way; when they end differently the
\* Content-Type is present and not allowed and download_image has raised
\* URL_IS_NOT_IMAGE; download_file never raises URL_IS_NOT_IMAGE.
\* ------------------------------------------------------------------------
C10_SameOutcome ==
  /\ raised[1] = raised[2]
  /\ returned[1] = returned[2]
  /\ nread[1] = nread[2]

C11_StagesInOrder(c) ==
  /\ visited[c] # {} => "get" \in visited[c]
  /\ "content_type" \in visited[c] => fn[c] = "download_image"
  /\ "content_length" \in visited[c] =>
       (fn[c] = "download_image" => "content_type" \in visited[c])
  /\ "stream" \in visited[c] => "content_length" \in visited[c]
  /\ "end" \in visited[c] =>
       ("content_length" \in visited[c] /\ nread[c] = Len(body))

\* how a finished call has ended, given whether the status check fails
C11_FirstFailureDecides(c, status_fails) ==
  IF status_fails
    THEN /\ RaisedOther(c, "HTTPError")
         /\ visited[c] = {"get"}
         /\ warned[c] = {}
         /\ IsNone(content_length[c])
         /\ nread[c] = 0
  ELSE IF fn[c] = "download_image" /\ ~ContentTypeAbsent(c) /\ ~ContentTypeAllowed(c)
    THEN /\ RaisedDownloadError(c, "URL_IS_NOT_IMAGE")
         /\ visited[c] = {"get", "content_type"}
         /\ nread[c] = 0
  ELSE IF ContentLengthIsInt(c) /\ DeclaredSize(c) > max_filesize
    THEN /\ RaisedDownloadError(c, "FILE_SIZE_TOO_LARGE")
         /\ nread[c] = 0
  ELSE IF ContentLengthIsInt(c) /\ DeclaredSize(c) < min_filesize
    THEN /\ RaisedDownloadError(c, "FILE_SIZE_TOO_SMALL")
         /\ nread[c] = 0
  ELSE IF ContentLengthAbsent(c) \/ ContentLengthIsInt(c)
    THEN IF Exceeding # {}
           THEN /\ RaisedDownloadError(c, "FILE_SIZE_TOO_LARGE")
                /\ nread[c] = FirstExceeding
                /\ "end" \notin visited[c]
           ELSE IF BodySize < min_filesize
             THEN /\ RaisedDownloadError(c, "FILE_SIZE_TOO_SMALL")
                  /\ "end" \in visited[c]
             ELSE Succeeded(c)
  ELSE TRUE  \* a Content-Length that is no integer: none of the named checks

C11_Original ==
  \A c \in Calls :
    /\ C11_StagesInOrder(c)
    /\ Done(c) => C11_FirstFailureDecides(c, status_code \notin 200..299)

\* C11 amended: the same, the status check failing on the statuses
\* raise_for_status rejects, 4xx and 5xx; a 3xx status passes it.
C11_ChecksInOrder ==
  \A c \in Calls :
    /\ C11_StagesInOrder(c)
    /\ Done(c) => C11_FirstFailureDecides(c, status_code >= 400 /\ status_code < 600)

\* one response with a Content-Type that is not allowed and a declared size
\* above max_filesize and below min_filesize: download_image ends with
\* URL_IS_NOT_IMAGE, download_file with FILE_SIZE_TOO_LARGE
C11_Witness ==
  /\ fn[1] = "download_image"
  /\ fn[2] = "download_file"
  /\ ~ContentTypeAbsent(1)
  /\ ~ContentTypeAllowed(1)
  /\ ContentLengthIsInt(2)
  /\ DeclaredSize(2) > max_filesize
  /\ DeclaredSize(2) < min_filesize
  /\ RaisedDownloadError(1, "URL_IS_NOT_IMAGE")
  /\ RaisedDownloadError(2, "FILE_SIZE_TOO_LARGE")
====
